---- MODULE Spec2Model ----
(***************************************************************************)
(* Physical-memory manager of the aarch64 port                             *)
(* (src/arch/aarch64/mm/physicalmem.rs).                                   *)
(*                                                                         *)
(* Addresses are natural numbers in units of half a base page, so that an  *)
(* address can be unaligned (the boot-info address is) and align_down! has *)
(* something to do.  The free list (crate::mm::freelist) is a sequence of  *)
(* [start, end) records; its engine is not part of physicalmem.rs and is   *)
(* modelled from section 4.2 of the specification.                         *)
(***************************************************************************)
EXTENDS Integers, Sequences, FiniteSets

VARIABLES
    layout,     \* what the boot/kernel collaborator reports (never changes)
    phase,      \* "Uninitialized" | "Initialized" | "Halted" (a panic)
    list,       \* PHYSICAL_FREE_LIST.list
    total,      \* TOTAL_MEMORY
    allocated,  \* ghost: the blocks handed out and not yet given back
    last,       \* ghost: the latest call, its arguments and its outcome
    lock,       \* the contexts that hold PHYSICAL_FREE_LIST's lock
    ctx,        \* per execution context: where it is in the call it makes
    irq         \* per core: whether interrupts are enabled

vars == <<layout, phase, list, total, allocated, last, lock, ctx, irq>>

\* What a call that runs from start to end on one core leaves as it found.
cvars == <<lock, ctx, irq>>

---------------------------------------------------------------------------
(* Sizes of the model *)

\* BasePageSize::SIZE, in address units (two units per page).
PageSize == 2

\* crate::KERNEL_STACK_SIZE, in address units (two pages).
KERNEL_STACK_SIZE == 4

\* The highest memory limit the boot environment reports, in pages.
MaxPages == 8

\* The largest kernel image, in pages.
MaxKernelPages == 1

\* The largest request, in pages.
MaxRequestPages == 2

MaxAddr == MaxPages * PageSize

PageAddrs == {a \in 0..MaxAddr : a % PageSize = 0}

\* Request sizes: zero, page multiples and sizes that are no page multiple.
Sizes == 0..(MaxRequestPages * PageSize)

\* Alignments: zero, below a page, one page, two pages.
Alignments == {0, 1, PageSize, 2 * PageSize}

---------------------------------------------------------------------------
(* Helpers *)

Min(a, b) == IF a < b THEN a ELSE b
Max(a, b) == IF a > b THEN a ELSE b

\* align_down!(value, alignment)
AlignDown(value, alignment) == (value \div alignment) * alignment

\* align_up!(value, alignment)
AlignUp(value, alignment) == ((value + alignment - 1) \div alignment) * alignment

FreeListEntry(s, e) == [start |-> s, end |-> e]

\* The addresses of a half-open range; an entry with end <= start holds none.
Overlap(s1, e1, s2, e2) == Max(s1, s2) < Min(e1, e2)

RECURSIVE SumSizes(_)
SumSizes(l) ==
    IF l = <<>> THEN 0 ELSE (Head(l).end - Head(l).start) + SumSizes(Tail(l))

RECURSIVE SumBlocks(_)
SumBlocks(S) ==
    IF S = {} THEN 0
    ELSE LET b == CHOOSE x \in S : TRUE IN b.size + SumBlocks(S \ {b})

FreeCapacity == SumSizes(list)

---------------------------------------------------------------------------
(* The boot environment *)

\* Emulated boot: RAM base R < boot-info address B < kernel start S <
\* kernel end K < limit L.  RAM base, kernel bounds and limit are page
\* aligned; the boot-info address is any address.  The reserved stack
\* [S - KERNEL_STACK_SIZE, S) lies inside the address space.
QemuLayouts ==
    {[uhyve |-> FALSE, limit |-> L, ram |-> R, boot_info |-> B,
      kernel_start |-> S, kernel_end |-> K] :
        R \in {0}, B \in 1..MaxAddr, S \in PageAddrs,
        K \in PageAddrs, L \in PageAddrs}

OrderedLayout(y) ==
    /\ y.ram < y.boot_info
    /\ y.boot_info < y.kernel_start
    /\ y.kernel_start < y.kernel_end
    /\ y.kernel_end < y.limit
    /\ y.kernel_end - y.kernel_start <= MaxKernelPages * PageSize
    /\ y.kernel_start >= KERNEL_STACK_SIZE

\* The boot-info page lies inside [R, S - KERNEL_STACK_SIZE): below the
\* reserved stack, which lies below the kernel image.
CarvedLayout(y) ==
    /\ y.ram <= AlignDown(y.boot_info, PageSize)
    /\ AlignDown(y.boot_info, PageSize) + PageSize
          <= y.kernel_start - KERNEL_STACK_SIZE

\* Direct boot: only the limit and the kernel end are read.
UhyveLayouts ==
    {[uhyve |-> TRUE, limit |-> L, ram |-> 0, boot_info |-> 0,
      kernel_start |-> K - PageSize, kernel_end |-> K] :
        K \in PageAddrs \ {0}, L \in PageAddrs}

\* Either protocol with a limit of zero: nothing is detected.
NoLimitLayouts ==
    {[uhyve |-> u, limit |-> 0, ram |-> 0, boot_info |-> 1,
      kernel_start |-> KERNEL_STACK_SIZE,
      kernel_end |-> KERNEL_STACK_SIZE + PageSize] : u \in BOOLEAN}

BootLayouts ==
    {y \in QemuLayouts : OrderedLayout(y) /\ CarvedLayout(y)}
      \cup {y \in UhyveLayouts : y.kernel_end < y.limit}
      \cup NoLimitLayouts

AnyBootLayouts ==
    {y \in QemuLayouts : OrderedLayout(y)}
      \cup {y \in UhyveLayouts : y.kernel_end < y.limit}
      \cup NoLimitLayouts

NoCall == [op |-> "none", size |-> 0, align |-> 0, addr |-> 0,
           res |-> "none", ret |-> 0, nfree |-> 0, reuse |-> -1,
           before |-> <<>>]

\* The record of a call made now.  before is the free list before the call
\* and nfree the number of its regions; reuse is, for an allocate that directly follows a completed
\* deallocate of the same size, the number of free regions before that
\* deallocate, and -1 for every other call.
Call(op, size, align, addr, res, ret) ==
    [op |-> op, size |-> size, align |-> align, addr |-> addr,
     res |-> res, ret |-> ret, nfree |-> Len(list),
     reuse |-> IF /\ op = "allocate"
                  /\ last.op = "deallocate"
                  /\ last.res = "ok"
                  /\ last.size = size
               THEN last.nfree ELSE -1,
     before |-> list]

---------------------------------------------------------------------------
(* Cores and execution contexts *)

\* The number of cores.
NumCores == 2

Cores == 1..NumCores

\* On each core, the kernel's own thread of control and the interrupt
\* handler that may preempt it.
Contexts == Cores \X {"thread", "handler"}

CoreOf(x) == x[1]

IsHandler(x) == x[2] = "handler"

\* A context that is in no call.
IdleContext ==
    [pc |-> "idle", op |-> "none", size |-> 0, align |-> 0, addr |-> 0,
     saved |-> FALSE, snap |-> <<>>]

---------------------------------------------------------------------------
(* The free-region pool: FreeList::allocate and FreeList::deallocate *)

\* The lowest offset at or after the region's start that satisfies the
\* alignment; alignment 0 stands for None and asks for a page-aligned offset.
PoolOffset(region, alignment) ==
    AlignUp(region.start, IF alignment = 0 THEN PageSize ELSE alignment)

PoolFits(region, size, alignment) ==
    PoolOffset(region, alignment) + size <= region.end

\* The matched range leaves the region: consumed, shrunk at one end, or split.
PoolCarve(l, i, off, size) ==
    LET r == l[i]
        before == SubSeq(l, 1, i - 1)
        after == SubSeq(l, i + 1, Len(l))
    IN  IF off = r.start /\ off + size = r.end THEN before \o after
        ELSE IF off = r.start
            THEN before \o <<FreeListEntry(off + size, r.end)>> \o after
        ELSE IF off + size = r.end
            THEN before \o <<FreeListEntry(r.start, off)>> \o after
        ELSE before
               \o <<FreeListEntry(r.start, off), FreeListEntry(off + size, r.end)>>
               \o after

\* Mutant: the last region that can hold the request is taken.
PoolAllocateLastFit(l, size, alignment) ==
    LET fits == {i \in 1..Len(l) : PoolFits(l[i], size, alignment)}
    IN  IF fits = {}
        THEN [ok |-> FALSE, addr |-> 0, list |-> l]
        ELSE LET i == CHOOSE k \in fits : \A j \in fits : k >= j
                 off == PoolOffset(l[i], alignment)
             IN  [ok |-> TRUE, addr |-> off, list |-> PoolCarve(l, i, off, size)]

\* First fit: the first region in list order that can hold the request.
PoolAllocate(l, size, alignment) ==
    LET fits == {i \in 1..Len(l) : PoolFits(l[i], size, alignment)}
    IN  IF fits = {}
        THEN [ok |-> FALSE, addr |-> 0, list |-> l]
        ELSE LET i == CHOOSE k \in fits : \A j \in fits : k <= j
                 off == PoolOffset(l[i], alignment)
             IN  [ok |-> TRUE, addr |-> off, list |-> PoolCarve(l, i, off, size)]

\* Mutant: the range extends the region that ends at addr and never the one
\* that starts at its end.
PoolDeallocateNoBridge(l, addr, size) ==
    LET end == addr + size
        lefts == {i \in 1..Len(l) : l[i].end = addr}
        above == {i \in 1..Len(l) : l[i].start > addr}
        lo(S) == CHOOSE k \in S : \A j \in S : k <= j
    IN  IF lefts # {} THEN [l EXCEPT ![lo(lefts)].end = end]
        ELSE LET at == IF above = {} THEN Len(l) + 1 ELSE lo(above)
             IN  SubSeq(l, 1, at - 1) \o <<FreeListEntry(addr, end)>>
                   \o SubSeq(l, at, Len(l))

\* The range returns to the free set: it extends the region that ends at
\* addr, the region that starts at addr + size, bridges both, or becomes a
\* region of its own at its place in address order.
PoolDeallocate(l, addr, size) ==
    LET end == addr + size
        lefts == {i \in 1..Len(l) : l[i].end = addr}
        rights == {i \in 1..Len(l) : l[i].start = end}
        above == {i \in 1..Len(l) : l[i].start > addr}
        lo(S) == CHOOSE k \in S : \A j \in S : k <= j
        drop(s, i) == SubSeq(s, 1, i - 1) \o SubSeq(s, i + 1, Len(s))
    IN  IF lefts # {} /\ rights # {}
        THEN drop([l EXCEPT ![lo(lefts)].end = l[lo(rights)].end], lo(rights))
        ELSE IF lefts # {} THEN [l EXCEPT ![lo(lefts)].end = end]
        ELSE IF rights # {} THEN [l EXCEPT ![lo(rights)].start = addr]
        ELSE LET at == IF above = {} THEN Len(l) + 1 ELSE lo(above)
             IN  SubSeq(l, 1, at - 1) \o <<FreeListEntry(addr, end)>>
                   \o SubSeq(l, at, Len(l))

---------------------------------------------------------------------------
(* Boot detection: detect_from_uhyve, detect_from_qemu, init *)

\* Mutant: the entry starts at the kernel start instead of the kernel end.
UhyveEntryFromStart == FreeListEntry(layout.kernel_start, layout.limit)

\* detect_from_uhyve: the entry and the total it stores.
UhyveEntry == FreeListEntry(layout.kernel_end, layout.limit)

UhyveTotal == layout.limit - layout.kernel_end

\* detect_from_qemu: boot_info, the three entries, and the three values
\* assigned to `total` in turn.
QemuBootInfo == AlignDown(layout.boot_info, PageSize)

QemuEntry1 == FreeListEntry(layout.ram, QemuBootInfo)

\* Mutant: the second entry runs up to the kernel start, the stack included.
QemuEntry2NoStack == FreeListEntry(QemuBootInfo + PageSize, layout.kernel_start)

QemuEntry2 ==
    FreeListEntry(QemuBootInfo + PageSize,
                  layout.kernel_start - KERNEL_STACK_SIZE)

QemuEntry3 == FreeListEntry(layout.kernel_end, layout.limit)

QemuTotal1 == QemuBootInfo - layout.ram

QemuTotal2 ==
    layout.kernel_start - KERNEL_STACK_SIZE - QemuBootInfo - PageSize

\* The value `total` holds when it is stored: the last assignment's.
QemuTotal == layout.limit - layout.kernel_end

\* Mutant: the direct-boot detector does not look at the limit.
UhyveAppliesAnyLimit == layout.uhyve

\* detect_from_uhyve returns Ok.
UhyveApplies == layout.uhyve /\ layout.limit # 0

\* detect_from_qemu returns Ok.
QemuApplies == layout.limit # 0

\* init().  A usize subtraction below zero panics in a build with overflow
\* checks and wraps in a build without: `checked` is the build.  The wrapped
\* values of `total` are overwritten before they are stored.
InitCall ==
    /\ phase = "Uninitialized"
    /\ allocated' = allocated
    /\ layout' = layout
    /\ \E checked \in BOOLEAN :
        IF UhyveApplies
        THEN /\ list' = Append(list, UhyveEntry)
             /\ total' = UhyveTotal
             /\ phase' = "Initialized"
             /\ last' = Call("init", 0, 0, 0, "ok", 0)
        ELSE IF ~QemuApplies
        THEN /\ phase' = "Halted"
             /\ last' = Call("init", 0, 0, 0, "fault", 0)
             /\ UNCHANGED <<list, total>>
        ELSE IF checked /\ QemuTotal1 < 0
        THEN /\ phase' = "Halted"
             /\ last' = Call("init", 0, 0, 0, "fault", 0)
             /\ UNCHANGED <<list, total>>
        ELSE IF checked /\ QemuTotal2 < 0
        THEN /\ phase' = "Halted"
             /\ last' = Call("init", 0, 0, 0, "fault", 0)
             /\ list' = Append(list, QemuEntry1)
             /\ total' = total
        ELSE /\ list' = list \o <<QemuEntry1, QemuEntry2, QemuEntry3>>
             /\ total' = QemuTotal
             /\ phase' = "Initialized"
             /\ last' = Call("init", 0, 0, 0, "ok", 0)

---------------------------------------------------------------------------
(* The allocation interface: allocate, allocate_aligned, deallocate *)

\* The assertions at the head of allocate.
AllocateContract(size) ==
    /\ size > 0
    /\ size % PageSize = 0

\* Mutant: the alignment is not checked against the page size.
AllocateAlignedContractNoPage(size, alignment) ==
    /\ size > 0
    /\ alignment > 0
    /\ size % alignment = 0

\* The assertions at the head of allocate_aligned.
AllocateAlignedContract(size, alignment) ==
    /\ size > 0
    /\ alignment > 0
    /\ size % alignment = 0
    /\ alignment % PageSize = 0

\* The assertions at the head of deallocate.
DeallocateContract(physical_address, size) ==
    /\ physical_address >= layout.kernel_end
    /\ size > 0
    /\ size % PageSize = 0

\* Mutant: the pool is asked for one page whatever the size.
AllocateCallOnePage(l, size) == PoolAllocate(l, PageSize, 0)

\* PHYSICAL_FREE_LIST.lock().allocate(size, None)
AllocateCall(l, size) == PoolAllocate(l, size, 0)

\* Mutant: the alignment is not passed on.
AllocateAlignedCallNone(l, size, alignment) == PoolAllocate(l, size, 0)

\* PHYSICAL_FREE_LIST.lock().allocate(size, Some(alignment))
AllocateAlignedCall(l, size, alignment) == PoolAllocate(l, size, alignment)

\* Mutant: one page is given back whatever the size.
DeallocateCallOnePage(l, physical_address, size) ==
    PoolDeallocate(l, physical_address, PageSize)

\* PHYSICAL_FREE_LIST.lock().deallocate(physical_address.as_usize(), size)
DeallocateCall(l, physical_address, size) ==
    PoolDeallocate(l, physical_address, size)

\* Mutant: the pool's result is unwrapped instead of propagated.
AllocOutcomeUnwrap(r) == IF r.ok THEN "ok" ELSE "fault"

\* `?` on the pool's result: Ok(PhysAddr(..)) or the AllocError returned.
\* try_into() of a usize into a u64 cannot fail on this 64-bit target.
AllocOutcome(r) == IF r.ok THEN "ok" ELSE "oom"

Block(addr, size) == [addr |-> addr, size |-> size]

Allocate(size) ==
    /\ phase = "Initialized"
    /\ UNCHANGED <<layout, total>>
    /\ IF ~AllocateContract(size)
       THEN /\ phase' = "Halted"
            /\ last' = Call("allocate", size, 0, 0, "fault", 0)
            /\ UNCHANGED <<list, allocated>>
       ELSE LET r == AllocateCall(list, size)
            IN  /\ list' = r.list
                /\ allocated' =
                     IF AllocOutcome(r) = "ok"
                     THEN allocated \cup {Block(r.addr, size)} ELSE allocated
                /\ last' = Call("allocate", size, 0, 0, AllocOutcome(r), r.addr)
                /\ phase' = IF AllocOutcome(r) \in {"ok", "oom"}
                            THEN phase ELSE "Halted"

AllocateAligned(size, alignment) ==
    /\ phase = "Initialized"
    /\ UNCHANGED <<layout, total>>
    /\ IF ~AllocateAlignedContract(size, alignment)
       THEN /\ phase' = "Halted"
            /\ last' = Call("allocate_aligned", size, alignment, 0, "fault", 0)
            /\ UNCHANGED <<list, allocated>>
       ELSE LET r == AllocateAlignedCall(list, size, alignment)
            IN  /\ list' = r.list
                /\ allocated' =
                     IF AllocOutcome(r) = "ok"
                     THEN allocated \cup {Block(r.addr, size)} ELSE allocated
                /\ last' = Call("allocate_aligned", size, alignment, 0,
                                AllocOutcome(r), r.addr)
                /\ phase' = IF AllocOutcome(r) \in {"ok", "oom"}
                            THEN phase ELSE "Halted"

\* deallocate is called for a block that is outstanding, or with arguments
\* that break its contract.
Deallocate(physical_address, size) ==
    /\ phase = "Initialized"
    /\ \/ Block(physical_address, size) \in allocated
       \/ ~DeallocateContract(physical_address, size)
    /\ UNCHANGED <<layout, total>>
    /\ IF ~DeallocateContract(physical_address, size)
       THEN /\ phase' = "Halted"
            /\ last' = Call("deallocate", size, 0, physical_address, "fault", 0)
            /\ UNCHANGED <<list, allocated>>
       ELSE /\ list' = DeallocateCall(list, physical_address, size)
            /\ allocated' = allocated \ {Block(physical_address, size)}
            /\ last' = Call("deallocate", size, 0, physical_address, "ok", 0)
            /\ phase' = phase

---------------------------------------------------------------------------
(* Specifications *)

Init ==
    /\ layout \in BootLayouts
    /\ phase = "Uninitialized"
    /\ list = <<>>
    /\ total = 0
    /\ allocated = {}
    /\ last = NoCall
    /\ lock = {}
    /\ ctx = [x \in Contexts |-> IdleContext]
    /\ irq = [c \in Cores |-> TRUE]

\* The same program booted on any ordered layout, the boot-info page and the
\* reserved stack placed anywhere below the kernel image.
InitAnyLayout ==
    /\ layout \in AnyBootLayouts
    /\ phase = "Uninitialized"
    /\ list = <<>>
    /\ total = 0
    /\ allocated = {}
    /\ last = NoCall
    /\ lock = {}
    /\ ctx = [x \in Contexts |-> IdleContext]
    /\ irq = [c \in Cores |-> TRUE]

\* One core, no interrupt: every call runs from start to end, the lock is
\* free before and after it.
Next ==
    \/ InitCall /\ UNCHANGED cvars
    \/ \E size \in Sizes : Allocate(size) /\ UNCHANGED cvars
    \/ \E size \in Sizes, alignment \in Alignments :
          AllocateAligned(size, alignment) /\ UNCHANGED cvars
    \/ \E physical_address \in 0..MaxAddr, size \in Sizes :
          Deallocate(physical_address, size) /\ UNCHANGED cvars

Spec == Init /\ [][Next]_vars

SpecAnyLayout == InitAnyLayout /\ [][Next]_vars

---------------------------------------------------------------------------
(* Properties *)

AfterInit == last.op = "init"

EmulatedBoot ==
    /\ ~layout.uhyve
    /\ layout.limit > 0
    /\ layout.ram < layout.boot_info
    /\ layout.boot_info < layout.kernel_start
    /\ layout.kernel_start < layout.kernel_end
    /\ layout.kernel_end < layout.limit

DirectBoot == layout.uhyve /\ layout.limit # 0

\* C1: Conservation.  In every initialized state, under either boot
\* protocol, the summed size of the free regions plus the summed size of
\* the outstanding allocations equals total_memory_size().
C1_Conservation ==
    phase = "Initialized" => FreeCapacity + SumBlocks(allocated) = total

\* C2: Under the emulated boot protocol, after init() total_memory_size()
\* equals the summed size of the three regions pushed into the pool.
C2_TotalIsSumOfThree ==
    (AfterInit /\ EmulatedBoot) =>
        /\ phase = "Initialized"
        /\ Len(list) = 3
        /\ total = SumSizes(list)

\* The regions and the reserved ranges C3 speaks of.
C3Regions ==
    LET bi == AlignDown(layout.boot_info, PageSize)
    IN  << FreeListEntry(layout.ram, bi),
           FreeListEntry(bi + PageSize, layout.kernel_start - KERNEL_STACK_SIZE),
           FreeListEntry(layout.kernel_end, layout.limit) >>

C3Reserved ==
    LET bi == AlignDown(layout.boot_info, PageSize)
    IN  { FreeListEntry(bi, bi + PageSize),
          FreeListEntry(layout.kernel_start - KERNEL_STACK_SIZE,
                        layout.kernel_start),
          FreeListEntry(layout.kernel_start, layout.kernel_end) }

C3Holds ==
    /\ phase = "Initialized"
    /\ list = C3Regions
    /\ \A i, j \in 1..Len(list) :
          i # j => ~Overlap(list[i].start, list[i].end,
                            list[j].start, list[j].end)
    /\ \A i \in 1..Len(list) : \A r \in C3Reserved :
          ~Overlap(list[i].start, list[i].end, r.start, r.end)

\* C3 as stated: under the emulated boot protocol with R < B < S < K < L,
\* init() leaves exactly the three regions of the formulas, pairwise
\* disjoint, and none holds the boot-info page, the reserved stack or the
\* kernel image.
C3_ThreeRegionsAnyOrdered == (AfterInit /\ EmulatedBoot) => C3Holds

\* C3 as amended: the same, for the layouts whose boot-info page lies inside
\* [R, S - reserved_stack_size).
C3_ThreeRegionsCarved ==
    (AfterInit /\ EmulatedBoot /\ CarvedLayout(layout)) => C3Holds

C3_Witness ==
    /\ AfterInit /\ EmulatedBoot /\ CarvedLayout(layout)
    /\ phase = "Initialized"
    /\ Len(list) = 3
    /\ \A i \in 1..3 : list[i].start < list[i].end

\* C4: Under the direct-boot protocol with a non-zero limit L and kernel end
\* K, init() leaves exactly one free region [K, L) and
\* total_memory_size() = L - K; nothing else is pushed.
C4_DirectBoot ==
    (AfterInit /\ DirectBoot) =>
        /\ phase = "Initialized"
        /\ list = <<FreeListEntry(layout.kernel_end, layout.limit)>>
        /\ total = layout.limit - layout.kernel_end

C4_Witness ==
    /\ AfterInit /\ DirectBoot
    /\ phase = "Initialized"
    /\ Len(list) = 1

\* C5: Non-overlap.  No two outstanding allocated ranges intersect, and no
\* outstanding allocated range intersects a free region.
C5_NonOverlap ==
    phase = "Initialized" =>
        /\ \A a, b \in allocated :
              a # b => ~Overlap(a.addr, a.addr + a.size, b.addr, b.addr + b.size)
        /\ \A a \in allocated : \A i \in 1..Len(list) :
              ~Overlap(a.addr, a.addr + a.size, list[i].start, list[i].end)

C5_Witness ==
    /\ phase = "Initialized"
    /\ Cardinality(allocated) >= 2
    /\ last.op = "deallocate" /\ last.res = "ok"
    /\ \E i \in 1..Len(list) : list[i].start < list[i].end

\* C6: Alignment.  Every address a successful allocate returns is a multiple
\* of the page size, and every address a successful allocate_aligned returns
\* is a multiple of the alignment asked for.
C6_Alignment ==
    /\ (last.op = "allocate" /\ last.res = "ok") => last.ret % PageSize = 0
    /\ (last.op = "allocate_aligned" /\ last.res = "ok") =>
          last.ret % last.align = 0

\* An aligned allocation carved out of a region whose start was not aligned.
C6_Witness ==
    /\ last.op = "allocate_aligned" /\ last.res = "ok"
    /\ \E i \in 1..Len(list) :
          /\ list[i].end = last.ret
          /\ list[i].start < list[i].end
          /\ list[i].start % last.align # 0

\* C7: Every caller precondition violation is a fatal fault: allocate with a
\* size of zero or no page multiple; allocate_aligned with a size of zero, an
\* alignment of zero, a size that is no multiple of the alignment or an
\* alignment that is no page multiple; deallocate with an address below the
\* kernel end, a size of zero or no page multiple.
C7_ContractFaults ==
    /\ (last.op = "allocate"
          /\ (last.size = 0 \/ last.size % PageSize # 0))
          => (last.res = "fault" /\ phase = "Halted")
    /\ (last.op = "allocate_aligned"
          /\ (\/ last.size = 0
              \/ last.align = 0
              \/ last.size % last.align # 0
              \/ last.align % PageSize # 0))
          => (last.res = "fault" /\ phase = "Halted")
    /\ (last.op = "deallocate"
          /\ (\/ last.addr < layout.kernel_end
              \/ last.size = 0
              \/ last.size % PageSize # 0))
          => (last.res = "fault" /\ phase = "Halted")

C7_Witness ==
    /\ last.op = "allocate_aligned"
    /\ last.size > 0 /\ last.align > 0
    /\ last.size % last.align = 0
    /\ last.align % PageSize # 0
    /\ last.res = "fault"

\* C8: Exhaustion.  A contract-conforming allocate or allocate_aligned for
\* more bytes than the free capacity returns OutOfMemory and does not fault.
C8_Exhaustion ==
    [][ (/\ phase = "Initialized"
         /\ last'.op \in {"allocate", "allocate_aligned"}
         /\ last'.size > 0
         /\ last'.size % PageSize = 0
         /\ last'.op = "allocate_aligned" =>
               (/\ last'.align > 0
                /\ last'.align % PageSize = 0
                /\ last'.size % last'.align = 0)
         /\ last'.size > SumSizes(list))
        => (last'.res = "oom" /\ phase' = "Initialized") ]_vars

C8_Witness ==
    /\ phase = "Initialized"
    /\ last.op \in {"allocate", "allocate_aligned"}
    /\ last.res = "oom"
    /\ last.size > FreeCapacity
    /\ FreeCapacity > 0

\* C9: Coalescing.  No two free regions are ever address-adjacent, and a
\* deallocated range lies inside one free region afterwards (merged with the
\* region that ended at its start and the region that started at its end).
C9_Coalescing ==
    phase = "Initialized" =>
        /\ \A i, j \in 1..Len(list) : i # j => list[i].end # list[j].start
        /\ (last.op = "deallocate" /\ last.res = "ok") =>
              \E i \in 1..Len(list) :
                  /\ list[i].start <= last.addr
                  /\ last.addr + last.size <= list[i].end

\* A deallocation that bridged two free regions into one.
C9_Witness ==
    /\ phase = "Initialized"
    /\ last.op = "deallocate" /\ last.res = "ok"
    /\ Len(list) < last.nfree
    /\ \E i \in 1..Len(list) :
          /\ list[i].start < last.addr
          /\ last.addr + last.size < list[i].end

---------------------------------------------------------------------------
(* Several cores: SpinlockIrqSave, the critical sections, interrupts *)

\* Mutant: the lock is taken without waiting for it to be free.
LockFreeAlways == TRUE

\* SpinlockIrqSave: the lock can be obtained.
LockFree == lock = {}

\* Mutant: acquiring leaves the interrupt-enable state as it was.
IrqOnAcquireKeep(was) == was

\* SpinlockIrqSave::lock: local interrupts are disabled (the state before is
\* saved in the guard).
IrqOnAcquire(was) == FALSE

\* Mutant: releasing enables interrupts whatever the saved state.
IrqOnReleaseEnable(saved) == TRUE

\* The guard's drop: the saved interrupt-enable state is restored.
IrqOnRelease(saved) == saved

\* Mutant: total_memory_size waits for the pool lock.
CounterReadableLocked == lock = {}

\* total_memory_size: an atomic load, no lock.
CounterReadable == TRUE

\* Mutant: an allocation that found no region is tried again.
AfterPoolRetry(r) == IF r.ok THEN "idle" ELSE "spin"

\* Where a call continues once the pool has answered: it returns, with the
\* address or with the error.
AfterPool(r) == "idle"

\* The requests of the several-core model.
CoreSizes == {0, PageSize, 2 * PageSize}

Request(op, size, align, addr) ==
    [op |-> op, size |-> size, align |-> align, addr |-> addr]

AllocateRequests == {Request("allocate", n, 0, 0) : n \in CoreSizes}

AllocateAlignedRequests ==
    {Request("allocate_aligned", n, 2 * PageSize, 0) : n \in CoreSizes}

\* deallocate of an outstanding block, or of the page at address 0.
DeallocateRequests ==
    {Request("deallocate", b.size, 0, b.addr) : b \in allocated}
      \cup {Request("deallocate", PageSize, 0, 0)}

PrintRequests == {Request("print_information", 0, 0, 0)}

\* The assertions a request must pass before the lock is asked for.
RequestContract(q) ==
    IF q.op = "allocate" THEN AllocateContract(q.size)
    ELSE IF q.op = "allocate_aligned"
        THEN AllocateAlignedContract(q.size, q.align)
    ELSE IF q.op = "deallocate" THEN DeallocateContract(q.addr, q.size)
    ELSE TRUE

\* What the pool does for a request on the free list it reads.
RequestOnPool(q, l) ==
    IF q.op = "allocate" THEN AllocateCall(l, q.size)
    ELSE IF q.op = "allocate_aligned"
        THEN AllocateAlignedCall(l, q.size, q.align)
    ELSE IF q.op = "deallocate"
        THEN [ok |-> TRUE, addr |-> 0,
              list |-> DeallocateCall(l, q.addr, q.size)]
    ELSE [ok |-> TRUE, addr |-> 0, list |-> l]

\* Mutant: the allocation's result is unwrapped under the lock.
RequestOutcomeUnwrap(q, r) == IF r.ok THEN "ok" ELSE "fault"

\* What the caller gets: Ok, or Err(AllocError) when the pool found nothing.
RequestOutcome(q, r) ==
    IF q.op \in {"allocate", "allocate_aligned"} THEN AllocOutcome(r) ELSE "ok"

\* A thread runs unless its core is in the interrupt handler.
Runnable(x) ==
    IsHandler(x) \/ ctx[<<CoreOf(x), "handler">>].pc = "idle"

CoreRecord(q, res, ret) ==
    [op |-> q.op, size |-> q.size, align |-> q.align, addr |-> q.addr,
     res |-> res, ret |-> ret, nfree |-> Len(list), reuse |-> -1,
     before |-> list]

\* A thread enters allocate, allocate_aligned, deallocate or
\* print_information: the assertions, then SpinlockIrqSave::lock disables
\* interrupts and starts to wait.
Enter(x, q) ==
    /\ phase = "Initialized"
    /\ ~IsHandler(x)
    /\ ctx[x].pc = "idle"
    /\ Runnable(x)
    /\ UNCHANGED <<layout, total, list, lock>>
    /\ IF ~RequestContract(q)
       THEN /\ phase' = "Halted"
            /\ last' = CoreRecord(q, "fault", 0)
            /\ UNCHANGED <<allocated, ctx, irq>>
       ELSE /\ phase' = phase
            /\ last' = last
            /\ allocated' = IF q.op = "deallocate"
                            THEN allocated \ {Block(q.addr, q.size)}
                            ELSE allocated
            /\ ctx' = [ctx EXCEPT ![x] =
                         [pc |-> "spin", op |-> q.op, size |-> q.size,
                          align |-> q.align, addr |-> q.addr,
                          saved |-> irq[CoreOf(x)], snap |-> <<>>]]
            /\ irq' = [irq EXCEPT ![CoreOf(x)] = IrqOnAcquire(irq[CoreOf(x)])]

\* An interrupt is delivered to a core whose interrupts are enabled; the
\* handler runs with interrupts masked and allocates one page.
Interrupt(c) ==
    /\ phase = "Initialized"
    /\ irq[c]
    /\ ctx[<<c, "handler">>].pc = "idle"
    /\ UNCHANGED <<layout, total, list, lock, phase, last, allocated>>
    /\ ctx' = [ctx EXCEPT ![<<c, "handler">>] =
                 [pc |-> "spin", op |-> "allocate", size |-> PageSize,
                  align |-> 0, addr |-> 0, saved |-> FALSE, snap |-> <<>>]]
    /\ irq' = [irq EXCEPT ![c] = FALSE]

\* The spinning context obtains the lock and reads the free list.
Acquire(x) ==
    /\ phase = "Initialized"
    /\ ctx[x].pc = "spin"
    /\ Runnable(x)
    /\ LockFree
    /\ lock' = lock \cup {x}
    /\ ctx' = [ctx EXCEPT ![x].pc = "critical", ![x].snap = list]
    /\ UNCHANGED <<layout, total, list, phase, last, allocated, irq>>

\* The lock holder writes the free list back, the guard is dropped (the lock
\* is released, the interrupt state restored) and the call returns; a handler
\* then returns from the interrupt.
Commit(x) ==
    /\ phase = "Initialized"
    /\ ctx[x].pc = "critical"
    /\ Runnable(x)
    /\ LET q == Request(ctx[x].op, ctx[x].size, ctx[x].align, ctx[x].addr)
           r == RequestOnPool(q, ctx[x].snap)
           res == RequestOutcome(q, r)
       IN  /\ list' = r.list
           /\ allocated' =
                IF q.op \in {"allocate", "allocate_aligned"} /\ res = "ok"
                THEN allocated \cup {Block(r.addr, q.size)} ELSE allocated
           /\ last' = CoreRecord(q, res, r.addr)
           /\ phase' = IF res \in {"ok", "oom"} THEN phase ELSE "Halted"
           /\ IF AfterPool(r) = "idle"
              THEN /\ lock' = lock \ {x}
                   /\ ctx' = [ctx EXCEPT ![x] = IdleContext]
                   /\ irq' = [irq EXCEPT ![CoreOf(x)] =
                                IF IsHandler(x) THEN TRUE
                                ELSE IrqOnRelease(ctx[x].saved)]
              ELSE /\ lock' = lock \ {x}
                   /\ ctx' = [ctx EXCEPT ![x].pc = AfterPool(r),
                                         ![x].snap = <<>>]
                   /\ irq' = irq
    /\ UNCHANGED <<layout, total>>

\* The kernel disables or enables the interrupts of a core between calls.
ToggleIrq(c) ==
    /\ phase = "Initialized"
    /\ ctx[<<c, "thread">>].pc = "idle"
    /\ ctx[<<c, "handler">>].pc = "idle"
    /\ irq' = [irq EXCEPT ![c] = ~irq[c]]
    /\ UNCHANGED <<layout, total, list, lock, phase, last, allocated, ctx>>

\* total_memory_size() on a thread that is in no call.
TotalMemorySize(x) ==
    /\ ~IsHandler(x)
    /\ ctx[x].pc = "idle"
    /\ Runnable(x)
    /\ phase # "Halted"
    /\ CounterReadable
    /\ last' = CoreRecord(Request("total_memory_size", 0, 0, 0), "ok", total)
    /\ UNCHANGED <<layout, total, list, lock, phase, allocated, ctx, irq>>

\* A small machine: one or two free pages above the kernel.
CoreLayouts ==
    {y \in BootLayouts :
        /\ y.limit # 0
        /\ y.limit - y.kernel_end <= 2 * PageSize
        /\ IF y.uhyve THEN y.kernel_end = PageSize
           ELSE /\ y.boot_info = 1
                /\ y.kernel_start = KERNEL_STACK_SIZE + PageSize
                /\ y.kernel_end = y.kernel_start + PageSize
                /\ y.limit = y.kernel_end + PageSize}

InitCores ==
    /\ layout \in CoreLayouts
    /\ phase = "Uninitialized"
    /\ list = <<>>
    /\ total = 0
    /\ allocated = {}
    /\ last = NoCall
    /\ lock = {}
    /\ ctx = [x \in Contexts |-> IdleContext]
    /\ irq = [c \in Cores |-> TRUE]

NextCores ==
    \/ InitCall /\ UNCHANGED cvars
    \/ \E x \in Contexts :
          \E q \in AllocateRequests \cup AllocateAlignedRequests
                     \cup DeallocateRequests \cup PrintRequests : Enter(x, q)
    \/ \E c \in Cores : Interrupt(c)
    \/ \E x \in Contexts : Acquire(x)
    \/ \E x \in Contexts : Commit(x)
    \/ \E c \in Cores : ToggleIrq(c)
    \/ \E x \in Contexts : TotalMemorySize(x)

SpecCores == InitCores /\ [][NextCores]_vars

\* The lock holder runs on (weak fairness of Commit) and the lock serves
\* every context that waits for it (strong fairness of Acquire).
FairSpecCores ==
    /\ SpecCores
    /\ \A x \in Contexts : WF_vars(Commit(x)) /\ SF_vars(Acquire(x))

---------------------------------------------------------------------------
(* Properties of boot detection and of the pool, one core *)

\* C11: init() uses the direct-boot detector when the environment is
\* direct-boot and the limit is non-zero, runs the emulated detector only
\* when the direct-boot detector did not apply, and fails fatally when the
\* limit is zero, with nothing pushed and the counter still 0.
C11_DetectorOrder ==
    AfterInit =>
        /\ DirectBoot =>
              /\ phase = "Initialized"
              /\ list = <<FreeListEntry(layout.kernel_end, layout.limit)>>
        /\ (~layout.uhyve /\ layout.limit # 0) =>
              /\ phase = "Initialized"
              /\ Len(list) = 3
        /\ layout.limit = 0 =>
              /\ phase = "Halted"
              /\ last.res = "fault"
              /\ list = <<>>
              /\ total = 0

\* A direct-boot environment with a limit of zero: both detectors ran.
C11_Witness ==
    /\ AfterInit
    /\ layout.uhyve /\ layout.limit = 0
    /\ phase = "Halted"

\* C15: Pool invariant.  In every initialized state every free region has
\* start < end, and the free regions are pairwise disjoint and in ascending
\* address order.
C15_PoolInvariant ==
    phase = "Initialized" =>
        /\ \A i \in 1..Len(list) : list[i].start < list[i].end
        /\ \A i, j \in 1..Len(list) : i < j => list[i].end <= list[j].start

\* The aligned addresses of a region at which a request of a size fits.
C16Places(region, size, alignment) ==
    {a \in region.start..(region.end - size) : a % alignment = 0}

C16Alignment == IF last'.op = "allocate" THEN PageSize ELSE last'.align

\* What is left of a region once [a, a + size) is taken out of it.
C16Rest(region, a, size) ==
    (IF region.start < a THEN <<FreeListEntry(region.start, a)>> ELSE <<>>)
      \o (IF a + size < region.end
          THEN <<FreeListEntry(a + size, region.end)>> ELSE <<>>)

\* C16: First-fit.  A successful allocate or allocate_aligned returns the
\* lowest suitably aligned address of the first free region that can hold the
\* request; exactly that range leaves the free set (the region is consumed,
\* shrunk or split) and every other region stays as it was.
C16_FirstFit ==
    [][ (/\ phase = "Initialized"
         /\ last'.op \in {"allocate", "allocate_aligned"}
         /\ last'.res = "ok")
        => \E i \in 1..Len(list) :
              /\ C16Places(list[i], last'.size, C16Alignment) # {}
              /\ \A j \in 1..(i - 1) :
                    C16Places(list[j], last'.size, C16Alignment) = {}
              /\ last'.ret \in C16Places(list[i], last'.size, C16Alignment)
              /\ \A a \in C16Places(list[i], last'.size, C16Alignment) :
                    last'.ret <= a
              /\ list' = SubSeq(list, 1, i - 1)
                           \o C16Rest(list[i], last'.ret, last'.size)
                           \o SubSeq(list, i + 1, Len(list)) ]_vars

\* An aligned allocation that split a region, with a region before it that
\* could not hold the request.
C16_Witness ==
    /\ last.op = "allocate_aligned" /\ last.res = "ok"
    /\ Len(list) = last.nfree + 1
    /\ \E i \in 1..Len(list) :
          /\ i > 1
          /\ list[i].end = last.ret
          /\ list[i - 1].start < list[i - 1].end

\* C18: Every range handed out can be given back: deallocate(a, size) for an
\* outstanding block meets deallocate's preconditions and does not fault.
C18_Returnable ==
    /\ phase = "Initialized" =>
          \A b \in allocated :
              /\ b.addr >= layout.kernel_end
              /\ b.size > 0
              /\ b.size % PageSize = 0
    /\ ~(/\ last.op = "deallocate"
         /\ last.res = "fault"
         /\ Block(last.addr, last.size) \in allocated)

\* C19: Round trip.  A successful allocation of a block, directly followed
\* by the deallocation of that block, restores the free list to the regions
\* it held before the allocation.
C19_RoundTrip ==
    [][ (/\ last.op \in {"allocate", "allocate_aligned"}
         /\ last.res = "ok"
         /\ last'.op = "deallocate"
         /\ last'.addr = last.ret
         /\ last'.size = last.size)
        => (/\ last'.res = "ok"
            /\ list' = last.before) ]_vars

---------------------------------------------------------------------------
(* Properties of the counter, the lock and the calls on several cores *)

Threads == {x \in Contexts : ~IsHandler(x)}

Returns(x) == ctx[x].pc = "critical" /\ ctx'[x].pc = "idle"

\* C12: The total-memory counter is written once, by a successful init(),
\* and by nothing else, so total_memory_size() returns the same value in
\* every state after init; it reads the counter without the pool lock, also
\* while another context holds it.
C12_CounterWrittenOnce ==
    /\ [][ (total' # total \/ (phase = "Uninitialized" /\ phase' = "Initialized"))
           => (/\ phase = "Uninitialized"
               /\ phase' = "Initialized"
               /\ last'.op = "init"
               /\ total = 0
               /\ total' # total) ]_vars
    /\ []((last.op = "total_memory_size" /\ phase = "Initialized")
            => last.ret = total)
    /\ [](\A x \in Threads :
            (phase = "Initialized" /\ ctx[x].pc = "idle" /\ Runnable(x))
              => ENABLED TotalMemorySize(x))

\* The counter was read while another core held the lock.
C12_Witness ==
    /\ phase = "Initialized"
    /\ last.op = "total_memory_size"
    /\ last.ret = total
    /\ lock # {}

\* C13: The lock is released on every exit path: a context that is in no
\* call does not hold it, and when a call returns (with success or with
\* OutOfMemory) the core's interrupt-enable state is the one before the call.
\* While a context holds the lock its core's interrupts are disabled, and no
\* interrupt handler waits for a lock its own core's thread holds.
C13_LockReleased ==
    /\ [](\A x \in Contexts : x \in lock => ctx[x].pc = "critical")
    /\ [](\A x \in lock : ~irq[CoreOf(x)])
    /\ [](\A c \in Cores :
            ~(ctx[<<c, "handler">>].pc = "spin" /\ <<c, "thread">> \in lock))
    /\ [][ \A x \in Threads :
             Returns(x) =>
                 (/\ x \notin lock'
                  /\ last'.res \in {"ok", "oom"}
                  /\ irq'[CoreOf(x)] = ctx[x].saved) ]_vars

\* A call returned OutOfMemory on a core whose interrupts were disabled
\* before it; the lock is free and the interrupts are still disabled.
C13_Witness ==
    /\ phase = "Initialized"
    /\ last.res = "oom"
    /\ lock = {}
    /\ \A x \in Contexts : ctx[x].pc = "idle"
    /\ \A c \in Cores : ~irq[c]

\* The blocks in use: handed out, or on their way back to the pool.
C14InUse ==
    allocated \cup
      {Block(ctx[x].addr, ctx[x].size) :
          x \in {y \in Contexts : ctx[y].op = "deallocate"}}

\* C14: Mutual exclusion.  At most one context is inside a critical section;
\* each critical section works on the free list as it is (so the calls take
\* effect one after the other, in the order they commit), and no two blocks
\* in use intersect each other or a free region.
C14_MutualExclusion ==
    /\ Cardinality({x \in Contexts : ctx[x].pc = "critical"}) <= 1
    /\ \A x \in Contexts : ctx[x].pc = "critical" => ctx[x].snap = list
    /\ \A a, b \in C14InUse :
          a # b => ~Overlap(a.addr, a.addr + a.size, b.addr, b.addr + b.size)
    /\ \A a \in C14InUse : \A i \in 1..Len(list) :
          ~Overlap(a.addr, a.addr + a.size, list[i].start, list[i].end)

\* Two cores allocate at once: one is inside, the other waits.
C14_Witness ==
    \E x, y \in Contexts :
        /\ CoreOf(x) # CoreOf(y)
        /\ ctx[x].pc = "critical" /\ ctx[x].op = "allocate"
        /\ ctx[y].pc = "spin" /\ ctx[y].op \in {"allocate", "allocate_aligned"}
        /\ allocated # {}

C20_FailuresChangeNothing ==
    /\ [][ (phase = "Initialized" /\ phase' = "Halted")
           => (/\ last'.res = "fault"
               /\ list' = list
               /\ total' = total
               /\ allocated' = allocated
               /\ lock' = lock
               /\ ctx' = ctx) ]_vars
    /\ [][ \A x \in Contexts :
             (Returns(x) /\ last'.res = "oom")
               => (/\ list' = list
                   /\ total' = total
                   /\ allocated' = allocated) ]_vars

\* A deallocate faulted on its address.
C20_Witness ==
    /\ phase = "Halted"
    /\ last.op = "deallocate"
    /\ last.res = "fault"
    /\ list # <<>>

====
